---- MODULE Spec2Model ----
(***************************************************************************)
(* The slide build pipeline of build.py and of its predecessor            *)
(* old_build.py: validation (check_paths), command construction and the    *)
(* converter subprocess (run_pandoc), and the exit paths of main.          *)
(*                                                                         *)
(* A behaviour is a sequence of runs of one script in one working          *)
(* directory.  The filesystem (fs) and the installed tools (pandoc, git)   *)
(* are the environment; the converter and the version probe are black      *)
(* boxes whose outcome is chosen when they are called.                     *)
(***************************************************************************)
EXTENDS Integers, Sequences, FiniteSets, TLC

VARIABLES
    script,         \* "build" (build.py) or "old_build" (old_build.py)
    argv,           \* sys.argv[1:] of the current run
    clock,          \* seconds of wall-clock time at import of the current run
    fs,             \* [source, reveal, dist, output]: the working directory
    pandoc,         \* the converter on PATH: "missing", "noexec" or "ok"
    git,            \* "<nogit>", "<norepo>" or the short hash of HEAD
    pc,             \* position of the current run
    checks_passed,  \* check_paths' local flag
    checks,         \* the checks evaluated so far: sequence of [name, ok]
    validator,      \* "idle", "running", "passed", "failed", "aborted"
    version,        \* <<>> or <<[rc, stdout]>> of `pandoc --version`
    slide_count,    \* <<>> or <<n>>: the slide count check_paths printed
    commit_hash,    \* run_pandoc's local
    pandoc_args,    \* run_pandoc's local (<<>> before it is built)
    result,         \* <<>> or <<[rc, wrote, stdout, stderr]>>: the converter's outcome
    spawned,        \* converter build processes started in this run
    out,            \* what the run printed: sequence of [tag, val]
    exitStatus,     \* <<>> while running, <<n>> once the process ended
    exitVia,        \* how it ended
    kbi,            \* "none", or the position a KeyboardInterrupt arrived at
    runs,           \* number of the current run
    prev            \* what is remembered of earlier runs (history)

vars == <<script, argv, clock, fs, pandoc, git, pc, checks_passed, checks,
          validator, version, slide_count, commit_hash, pandoc_args, result,
          spawned, out, exitStatus, exitVia, kbi, runs, prev>>

---------------------------------------------------------------------------
(* Bounds *)

\* Runs in one behaviour.
MaxRuns == 2

\* Longest source file content enumerated for the slide count.
MaxLen == 7

---------------------------------------------------------------------------
(* Configuration: build.py:23-25, old_build.py:11-13 *)

SOURCE_MD == "slides/deck.md"

OUTPUT_HTML == "dist/index.html"

REVEAL_VENDOR == "revealjs"

Scripts == {"build", "old_build"}

\* sys.argv[1:] of a run.
Argvs == {<<>>, <<"--verbose">>, <<"-v">>, <<"--help">>, <<"-V">>}

\* A deck of three slides: two separator lines.
Deck == "# One\n\n---\n\n# Two\n\n---\n\n# Three\n"

\* revealjs/ is absent, a directory without dist/reveal.js, or complete.
Reveals == {"absent", "dir", "complete"}

Pandocs == {"missing", "noexec", "ok"}

Gits == {"<nogit>", "<norepo>", "a1b2c3d", "e4f5a6b"}

\* What `pandoc --version` can answer when pandoc runs.
VersionOutcomes ==
    { [rc |-> 0, stdout |-> "pandoc 3.1.9\nFeatures: +server +lua\n"],
      [rc |-> 0, stdout |-> ""],
      [rc |-> 1, stdout |-> ""] }

\* What the converter can do: its exit status, the size of the artifact it
\* wrote (<<>>: it wrote none), its captured output and error streams.
ConverterOutcomes ==
    [ rc : {0, 1, 64},
      wrote : {<<>>, <<10000>>},
      stdout : {"", "pandoc 3.1.9\n"},
      stderr : {"", "[WARNING] w1\n", "e1\ne2\ne3\ne4\ne5\ne6\ne7\n"} ]

---------------------------------------------------------------------------
(* Strings *)

Whitespace == {" ", "\n", "\t", "\r"}

Char(s, i) == SubSeq(s, i, i)

\* str.strip()
RECURSIVE LStrip(_)
LStrip(s) ==
    IF Len(s) > 0 /\ Char(s, 1) \in Whitespace
    THEN LStrip(SubSeq(s, 2, Len(s)))
    ELSE s

RECURSIVE RStrip(_)
RStrip(s) ==
    IF Len(s) > 0 /\ Char(s, Len(s)) \in Whitespace
    THEN RStrip(SubSeq(s, 1, Len(s) - 1))
    ELSE s

Strip(s) == RStrip(LStrip(s))

\* str.split('\n'): the pieces between the newlines, empty ones included.
RECURSIVE SplitFrom(_, _, _)
SplitFrom(s, i, start) ==
    IF i > Len(s) THEN <<SubSeq(s, start, Len(s))>>
    ELSE IF Char(s, i) = "\n"
         THEN <<SubSeq(s, start, i - 1)>> \o SplitFrom(s, i + 1, i + 1)
         ELSE SplitFrom(s, i + 1, start)

SplitLines(s) == SplitFrom(s, 1, 1)

\* str.count(sub): non-overlapping occurrences, scanning left to right.
RECURSIVE CountFrom(_, _, _)
CountFrom(s, sub, i) ==
    IF i + Len(sub) - 1 > Len(s) THEN 0
    ELSE IF SubSeq(s, i, i + Len(sub) - 1) = sub
         THEN 1 + CountFrom(s, sub, i + Len(sub))
         ELSE CountFrom(s, sub, i + 1)

StrCount(s, sub) == CountFrom(s, sub, 1)

\* " ".join(args)
RECURSIVE Join(_)
Join(args) ==
    IF Len(args) = 0 THEN ""
    ELSE IF Len(args) = 1 THEN args[1]
    ELSE args[1] \o " " \o Join(Tail(args))

Digits == <<"0", "1", "2", "3", "4", "5", "6", "7", "8", "9">>

\* datetime.now().isoformat(timespec='seconds') at second t of the minute.
IsoFormat(t) ==
    "2026-11-04T09:30:" \o Digits[(t \div 10) + 1] \o Digits[(t % 10) + 1]

BUILD_TIME == IsoFormat(clock)

Msg(tag, val) == [tag |-> tag, val |-> val]

Printed(tag) == \E i \in 1..Len(out) : out[i].tag = tag

---------------------------------------------------------------------------
(* Helpers of build.py *)

\* build.py:177: the command line is shown cut to this many characters.
CmdDisplayLimit == 100

\* build.py:250: the trailing lines of the error stream that are shown.
ErrorTail == 5

\* build.py:31-44.  git missing raises FileNotFoundError, outside a
\* repository git exits 128: both give the sentinel.
get_git_hash(g) ==
    IF g = "<nogit>" THEN "unknown"
    ELSE IF g = "<norepo>" THEN "unknown"
    ELSE Strip(g \o "\n")

\* "--verbose" in sys.argv or "-v" in sys.argv
Verbose == \E i \in 1..Len(argv) : argv[i] \in {"--verbose", "-v"}

SourceExists == fs.source # <<>>

OutputExists == fs.output # <<>>

\* SOURCE_MD.stat().st_size
SourceSize == Len(fs.source[1])

\* The lines of a captured stream that are not blank.
RECURSIVE NonBlank(_)
NonBlank(lines) ==
    IF lines = <<>> THEN <<>>
    ELSE IF Strip(Head(lines)) # "" THEN <<Head(lines)>> \o NonBlank(Tail(lines))
    ELSE NonBlank(Tail(lines))

\* error_lines[-5:]
LastLines(lines, n) ==
    IF Len(lines) <= n THEN lines ELSE SubSeq(lines, Len(lines) - n + 1, Len(lines))

RECURSIVE Lines(_, _)
Lines(tag, lines) ==
    IF lines = <<>> THEN <<>>
    ELSE <<Msg(tag, Head(lines))>> \o Lines(tag, Tail(lines))

\* PandocArgs with the verbosity of the run passed on to the converter.
PandocArgsVerbose ==
    << "pandoc", SOURCE_MD,
       "-t", "revealjs",
       "-o", OUTPUT_HTML,
       "--standalone", "--embed-resources",
       "--slide-level=1",
       "-V", "revealjs-url=" \o REVEAL_VENDOR,
       "-V", "theme=black",
       "-V", "slide-number=true",
       "-V", "transition=slide",
       "-V", "controls=true",
       "-V", "progress=true",
       "-V", "center=true",
       "-V", "mouseWheel=true",
       "-V", "showSlideProgress=true",
       "-V", "build-time=" \o BUILD_TIME,
       "-V", "commit-hash=" \o commit_hash,
       "--strip-comments",
       "--resource-path=.:slides:." >>
    \o (IF Verbose THEN << "--verbose" >> ELSE << >>)

\* build.py:131-173: the argument list of the converter.
PandocArgs ==
    << "pandoc", SOURCE_MD,
       "-t", "revealjs",
       "-o", OUTPUT_HTML,
       "--standalone", "--embed-resources",
       "--slide-level=1",
       "-V", "revealjs-url=" \o REVEAL_VENDOR,
       "-V", "theme=black",
       "-V", "slide-number=true",
       "-V", "transition=slide",
       "-V", "controls=true",
       "-V", "progress=true",
       "-V", "center=true",
       "-V", "mouseWheel=true",
       "-V", "showSlideProgress=true",
       "-V", "build-time=" \o BUILD_TIME,
       "-V", "commit-hash=" \o commit_hash,
       "--strip-comments",
       "--resource-path=.:slides:." >>

\* old_build.py:40-73
OldPandocArgs ==
    << "pandoc", SOURCE_MD,
       "-t", "revealjs",
       "-o", OUTPUT_HTML,
       "--standalone", "--embed-resources",
       "--slide-level=1",
       "-V", "slide-number=true",
       "-V", "revealjs-url=" \o REVEAL_VENDOR,
       "-V", "theme=black",
       "--strip-comments" >>

\* build.py:176-180
CmdDisplay(cmd_text) ==
    IF Len(cmd_text) > CmdDisplayLimit
    THEN SubSeq(cmd_text, 1, CmdDisplayLimit) \o "..."
    ELSE cmd_text

\* exit(n), or the return of the script's last statement (status 0)
Exit(n, via) ==
    /\ pc' = "done"
    /\ exitStatus' = <<n>>
    /\ exitVia' = via

Check(name, ok) == [name |-> name, ok |-> ok]

invocation == <<script, argv, clock, runs, prev, kbi>>

tools == <<pandoc, git>>

locals == <<version, slide_count, commit_hash, pandoc_args, result, spawned>>

---------------------------------------------------------------------------
(* main of build.py *)

\* build.py:290-293
MainHelp ==
    /\ script = "build" /\ pc = "main"
    /\ Len(argv) > 0 /\ argv[1] \in {"--help", "-h", "help"}
    /\ out' = Append(out, Msg("Help", "Slides Builder"))
    /\ Exit(0, "return")
    /\ UNCHANGED <<invocation, tools, locals, fs, checks_passed, checks, validator>>

\* build.py:294-296
MainVersion ==
    /\ script = "build" /\ pc = "main"
    /\ Len(argv) > 0 /\ argv[1] \notin {"--help", "-h", "help"}
    /\ argv[1] \in {"--version", "-V"}
    /\ out' = Append(out, Msg("Version", "Slides Builder v0.1.0"))
    /\ Exit(0, "return")
    /\ UNCHANGED <<invocation, tools, locals, fs, checks_passed, checks, validator>>

\* build.py:298-305: the header, then the call of check_paths
MainHeader ==
    /\ script = "build" /\ pc = "main"
    /\ \/ Len(argv) = 0
       \/ /\ Len(argv) > 0
          /\ argv[1] \notin {"--help", "-h", "help", "--version", "-V"}
    /\ out' = Append(out, Msg("Header", "Slides Builder"))
    /\ pc' = "check_source"
    /\ UNCHANGED <<invocation, tools, locals, fs, checks_passed, checks, validator,
                   exitStatus, exitVia>>

---------------------------------------------------------------------------
(* check_paths of build.py *)

\* build.py:65-78
CheckSource ==
    /\ script = "build" /\ pc = "check_source"
    /\ validator' = "running"
    /\ checks_passed' = SourceExists
    /\ checks' = Append(checks, Check("source", SourceExists))
    /\ IF ~SourceExists
       THEN /\ out' = out \o << Msg("Validating environment...", ""),
                                Msg("Source file not found", SOURCE_MD) >>
            /\ pc' = "check_reveal"
       ELSE /\ out' = out \o << Msg("Validating environment...", ""),
                                Msg("Source file", SOURCE_MD),
                                Msg("Size", SourceSize) >>
            /\ pc' = "count_slides"
    /\ UNCHANGED <<invocation, tools, locals, fs, exitStatus, exitVia>>

\* build.py:83: content.count('\n---\n') + 1
SlideCount(content) == StrCount(content, "\n---\n") + 1

\* build.py:80-86
CountSlides ==
    /\ script = "build" /\ pc = "count_slides"
    /\ slide_count' = <<SlideCount(fs.source[1])>>
    /\ out' = Append(out, Msg("Slides", SlideCount(fs.source[1])))
    /\ pc' = "check_reveal"
    /\ UNCHANGED <<invocation, tools, fs, checks_passed, checks, validator, version,
                   commit_hash, pandoc_args, result, spawned, exitStatus, exitVia>>

\* build.py:88-96
CheckReveal ==
    /\ script = "build" /\ pc = "check_reveal"
    /\ IF fs.reveal # "complete"
       THEN /\ out' = Append(out, Msg("reveal.js not found", REVEAL_VENDOR))
            /\ checks_passed' = FALSE
       ELSE /\ out' = Append(out, Msg("reveal.js", REVEAL_VENDOR))
            /\ UNCHANGED checks_passed
    /\ checks' = Append(checks, Check("reveal", fs.reveal = "complete"))
    /\ pc' = "check_pandoc"
    /\ UNCHANGED <<invocation, tools, locals, fs, validator, exitStatus, exitVia>>

\* build.py:102: result.stdout.split('\n')[0]
VersionLine(stdout) == SplitLines(stdout)[1]

\* build.py:98-107.  A pandoc that is on PATH but cannot be executed raises
\* PermissionError, which this except clause does not name.
CheckPandoc ==
    /\ script = "build" /\ pc = "check_pandoc"
    /\ IF pandoc = "missing"
       THEN /\ out' = Append(out, Msg("Pandoc not found in PATH", ""))
            /\ checks_passed' = FALSE
            /\ checks' = Append(checks, Check("pandoc", FALSE))
            /\ pc' = "ensure_outdir"
            /\ UNCHANGED <<version, validator>>
       ELSE IF pandoc = "noexec"
       THEN /\ pc' = "unexpected"
            /\ validator' = "aborted"
            /\ UNCHANGED <<out, checks_passed, checks, version>>
       ELSE \E v \in VersionOutcomes :
            /\ version' = <<v>>
            /\ out' = Append(out, Msg("Pandoc", VersionLine(v.stdout)))
            /\ checks' = Append(checks, Check("pandoc", TRUE))
            /\ pc' = "ensure_outdir"
            /\ UNCHANGED <<checks_passed, validator>>
    /\ UNCHANGED <<invocation, tools, fs, slide_count, commit_hash, pandoc_args,
                   result, spawned, exitStatus, exitVia>>

\* EnsureOutputDir creating the directory only when the checks before it
\* passed.
EnsureOutputDirIfPassed ==
    /\ script = "build" /\ pc = "ensure_outdir"
    /\ fs' = [fs EXCEPT !.dist = fs.dist \/ checks_passed]
    /\ out' = Append(out, Msg("Output directory", "dist"))
    /\ checks' = Append(checks, Check("output_dir", TRUE))
    /\ pc' = "check_end"
    /\ UNCHANGED <<invocation, tools, locals, checks_passed, validator,
                   exitStatus, exitVia>>

\* build.py:109-111: mkdir(parents=True, exist_ok=True)
EnsureOutputDir ==
    /\ script = "build" /\ pc = "ensure_outdir"
    /\ fs' = [fs EXCEPT !.dist = TRUE]
    /\ out' = Append(out, Msg("Output directory", "dist"))
    /\ checks' = Append(checks, Check("output_dir", TRUE))
    /\ pc' = "check_end"
    /\ UNCHANGED <<invocation, tools, locals, checks_passed, validator,
                   exitStatus, exitVia>>

\* CheckEnd without the exit(1) of build.py:115: a failed validation goes on
\* to run_pandoc.
CheckEndNoExit ==
    /\ script = "build" /\ pc = "check_end"
    /\ IF ~checks_passed
       THEN /\ out' = Append(out, Msg("Validation failed", ""))
            /\ validator' = "failed"
       ELSE /\ out' = Append(out, Msg("All checks passed!", ""))
            /\ validator' = "passed"
    /\ pc' = "run_pandoc"
    /\ UNCHANGED <<invocation, tools, locals, fs, checks_passed, checks,
                   exitStatus, exitVia>>

\* build.py:113-118
CheckEnd ==
    /\ script = "build" /\ pc = "check_end"
    /\ IF ~checks_passed
       THEN /\ out' = Append(out, Msg("Validation failed", ""))
            /\ validator' = "failed"
            /\ Exit(1, "exit")
       ELSE /\ out' = Append(out, Msg("All checks passed!", ""))
            /\ validator' = "passed"
            /\ pc' = "run_pandoc"
            /\ UNCHANGED <<exitStatus, exitVia>>
    /\ UNCHANGED <<invocation, tools, locals, fs, checks_passed, checks>>

---------------------------------------------------------------------------
(* run_pandoc of build.py *)

\* build.py:123-128
RunPandocStart ==
    /\ script = "build" /\ pc = "run_pandoc"
    /\ out' = out \o << Msg("Building slides...", ""),
                        Msg("Source", SOURCE_MD),
                        Msg("Target", OUTPUT_HTML) >>
    /\ commit_hash' = get_git_hash(git)
    /\ pc' = "build_command"
    /\ UNCHANGED <<invocation, tools, fs, checks_passed, checks, validator, version,
                   slide_count, pandoc_args, result, spawned, exitStatus, exitVia>>

\* build.py:175-187: what is shown of the command line before it is run
CommandMessages(cmd_text) ==
    << Msg("Command", CmdDisplay(cmd_text)) >>
    \o (IF Verbose THEN << Msg("Full Pandoc Command", cmd_text) >> ELSE << >>)

\* build.py:130-187
BuildCommand ==
    /\ script = "build" /\ pc = "build_command"
    /\ pandoc_args' = PandocArgs
    /\ out' = out \o CommandMessages(Join(PandocArgs))
    /\ pc' = "spawn"
    /\ UNCHANGED <<invocation, tools, fs, checks_passed, checks, validator, version,
                   slide_count, commit_hash, result, spawned, exitStatus, exitVia>>

\* AfterRun without check=True: no exit status raises CalledProcessError.
AfterRunUnchecked(rc) == "report"

\* subprocess.run(..., check=True): where control goes for exit status rc
AfterRun(rc) == IF rc # 0 THEN "build_failed" ELSE "report"

\* build.py:189-207
Spawn ==
    /\ script = "build" /\ pc = "spawn"
    /\ IF pandoc = "missing"
       THEN /\ pc' = "not_found"
            /\ UNCHANGED <<result, spawned, fs>>
       ELSE IF pandoc = "noexec"
       THEN /\ pc' = "unexpected"
            /\ UNCHANGED <<result, spawned, fs>>
       ELSE \E o \in ConverterOutcomes :
            /\ spawned' = spawned + 1
            /\ result' = <<o>>
            /\ fs' = IF o.wrote # <<>> THEN [fs EXCEPT !.output = o.wrote] ELSE fs
            /\ pc' = AfterRun(o.rc)
    /\ UNCHANGED <<invocation, tools, checks_passed, checks, validator, version,
                   slide_count, commit_hash, pandoc_args, out, exitStatus, exitVia>>

\* build.py:212-217
SizeMessages ==
    IF OutputExists
    THEN << Msg("Output size", fs.output[1]),
            IF SourceExists /\ SourceSize > 0
            THEN Msg("Compression", <<fs.output[1], SourceSize>>)
            ELSE Msg("", "") >>
    ELSE << >>

\* build.py:219-224
WarningMessages(stderr) ==
    IF stderr # ""
    THEN << Msg("Pandoc Messages", "") >>
         \o Lines("message", NonBlank(SplitLines(Strip(stderr))))
    ELSE << >>

\* build.py:226-231 with print_build_summary, build.py:46-60
SummaryMessages ==
    IF OutputExists /\ SourceExists
    THEN << Msg("Build Summary",
                [source |-> SourceSize, output |-> fs.output[1],
                 build_time |-> BUILD_TIME, commit |-> get_git_hash(git)]) >>
    ELSE << >>

\* build.py:209-237
Report ==
    /\ script = "build" /\ pc = "report"
    /\ out' = out \o << Msg("Build complete!", "") >>
                  \o SizeMessages
                  \o WarningMessages(result[1].stderr)
                  \o SummaryMessages
                  \o << Msg("Next steps", OUTPUT_HTML) >>
    /\ pc' = "final_banner"
    /\ UNCHANGED <<invocation, tools, locals, fs, checks_passed, checks, validator,
                   exitStatus, exitVia>>

\* build.py:246-252
ErrorMessages(stderr) ==
    IF stderr # ""
    THEN << Msg("Error Output", "") >>
         \o Lines("error", NonBlank(LastLines(SplitLines(Strip(stderr)), ErrorTail)))
    ELSE << >>

\* build.py:242-244
StdoutMessages(stdout) ==
    IF stdout # "" THEN << Msg("Standard Output", stdout) >> ELSE << >>

\* build.py:239-254
FailedHandler ==
    /\ script = "build" /\ pc = "build_failed"
    /\ out' = out \o << Msg("Build Failed!", result[1].rc) >>
                  \o StdoutMessages(result[1].stdout)
                  \o ErrorMessages(result[1].stderr)
    /\ Exit(1, "exit")
    /\ UNCHANGED <<invocation, tools, locals, fs, checks_passed, checks, validator>>

\* build.py:256-260 and old_build.py:94-96
NotFoundHandler ==
    /\ pc = "not_found"
    /\ out' = Append(out, Msg("Pandoc not found", ""))
    /\ Exit(1, "exit")
    /\ UNCHANGED <<invocation, tools, locals, fs, checks_passed, checks, validator>>

\* build.py:262-264
InterruptedHandler ==
    /\ script = "build" /\ pc = "interrupted"
    /\ out' = Append(out, Msg("Build interrupted by user", ""))
    /\ Exit(130, "exit")
    /\ UNCHANGED <<invocation, tools, locals, fs, checks_passed, checks, validator>>

\* build.py:308-311, and the return of main
FinalBanner ==
    /\ script = "build" /\ pc = "final_banner"
    /\ out' = Append(out, Msg("Build successful!", OUTPUT_HTML))
    /\ Exit(0, "return")
    /\ UNCHANGED <<invocation, tools, locals, fs, checks_passed, checks, validator>>

\* build.py:313-316
UnexpectedHandler ==
    /\ script = "build" /\ pc = "unexpected"
    /\ out' = Append(out, Msg("Unexpected error", ""))
    /\ Exit(1, "exit")
    /\ UNCHANGED <<invocation, tools, locals, fs, checks_passed, checks, validator>>

---------------------------------------------------------------------------
(* old_build.py *)

\* old_build.py:18-21
OldCheckSource ==
    /\ script = "old_build" /\ pc = "main"
    /\ checks' = Append(checks, Check("source", SourceExists))
    /\ IF ~SourceExists
       THEN /\ out' = Append(out, Msg("Source file not found", SOURCE_MD))
            /\ validator' = "failed"
            /\ Exit(1, "exit")
       ELSE /\ validator' = "running"
            /\ pc' = "old_check_reveal"
            /\ UNCHANGED <<out, exitStatus, exitVia>>
    /\ UNCHANGED <<invocation, tools, locals, fs, checks_passed>>

\* old_build.py:23-26: REVEAL_VENDOR.is_dir()
OldCheckReveal ==
    /\ script = "old_build" /\ pc = "old_check_reveal"
    /\ checks' = Append(checks, Check("reveal", fs.reveal # "absent"))
    /\ IF fs.reveal = "absent"
       THEN /\ out' = Append(out, Msg("reveal.js not found", REVEAL_VENDOR))
            /\ validator' = "failed"
            /\ Exit(1, "exit")
       ELSE /\ pc' = "old_ensure_outdir"
            /\ UNCHANGED <<out, validator, exitStatus, exitVia>>
    /\ UNCHANGED <<invocation, tools, locals, fs, checks_passed>>

\* old_build.py:28-31, and the return of check_paths
OldEnsureOutputDir ==
    /\ script = "old_build" /\ pc = "old_ensure_outdir"
    /\ IF ~fs.dist
       THEN /\ out' = Append(out, Msg("Creating output directory", "dist"))
            /\ fs' = [fs EXCEPT !.dist = TRUE]
       ELSE UNCHANGED <<out, fs>>
    /\ checks' = Append(checks, Check("output_dir", TRUE))
    /\ validator' = "passed"
    /\ pc' = "old_run_pandoc"
    /\ UNCHANGED <<invocation, tools, locals, checks_passed, exitStatus, exitVia>>

\* old_build.py:37-77
OldRunPandoc ==
    /\ script = "old_build" /\ pc = "old_run_pandoc"
    /\ pandoc_args' = OldPandocArgs
    /\ out' = out \o << Msg("Starting build...", ""),
                        Msg("Running command", Join(OldPandocArgs)) >>
    /\ pc' = "old_spawn"
    /\ UNCHANGED <<invocation, tools, fs, checks_passed, checks, validator, version,
                   slide_count, commit_hash, result, spawned, exitStatus, exitVia>>

\* old_build.py:79.  No handler names PermissionError: the traceback ends
\* the process with status 1.
OldSpawn ==
    /\ script = "old_build" /\ pc = "old_spawn"
    /\ IF pandoc = "missing"
       THEN /\ pc' = "not_found"
            /\ UNCHANGED <<result, spawned, fs, out, exitStatus, exitVia>>
       ELSE IF pandoc = "noexec"
       THEN /\ out' = Append(out, Msg("Traceback", "PermissionError"))
            /\ Exit(1, "traceback")
            /\ UNCHANGED <<result, spawned, fs>>
       ELSE \E o \in ConverterOutcomes :
            /\ spawned' = spawned + 1
            /\ result' = <<o>>
            /\ fs' = IF o.wrote # <<>> THEN [fs EXCEPT !.output = o.wrote] ELSE fs
            /\ pc' = IF o.rc # 0 THEN "old_build_failed" ELSE "old_report"
            /\ UNCHANGED <<out, exitStatus, exitVia>>
    /\ UNCHANGED <<invocation, tools, checks_passed, checks, validator, version,
                   slide_count, commit_hash, pandoc_args>>

\* old_build.py:81-87, and the end of the script
OldReport ==
    /\ script = "old_build" /\ pc = "old_report"
    /\ out' = out \o << Msg("Build complete!", ""),
                        Msg("Output written to", OUTPUT_HTML) >>
                  \o (IF result[1].stderr # ""
                      THEN << Msg("Pandoc Messages", result[1].stderr) >>
                      ELSE << >>)
    /\ Exit(0, "return")
    /\ UNCHANGED <<invocation, tools, locals, fs, checks_passed, checks, validator>>

\* old_build.py:89-93
OldFailedHandler ==
    /\ script = "old_build" /\ pc = "old_build_failed"
    /\ out' = out \o << Msg("Build Failed!", ""),
                        Msg("Command", Join(pandoc_args)),
                        Msg("Error output", result[1].stderr) >>
    /\ Exit(1, "exit")
    /\ UNCHANGED <<invocation, tools, locals, fs, checks_passed, checks, validator>>

---------------------------------------------------------------------------
(* Runs *)

\* The working directories a first run can find.  An artifact of an
\* earlier build lies in dist/, so it implies the directory.
Filesystems ==
    { f \in [ source : {<<>>, <<Deck>>},
              reveal : Reveals,
              dist : BOOLEAN,
              output : {<<>>, <<512>>} ] :
        f.output # <<>> => f.dist }

\* old_build.py reads neither sys.argv nor the revision.
ArgvsOf(s) == IF s = "build" THEN Argvs ELSE {<<>>}

GitsOf(s, g) == IF s = "build" THEN Gits ELSE {g}

Init ==
    /\ script \in Scripts
    /\ argv \in ArgvsOf(script)
    /\ clock = 0
    /\ fs \in Filesystems
    /\ pandoc \in Pandocs
    /\ git \in GitsOf(script, "<nogit>")
    /\ pc = "main"
    /\ checks_passed = TRUE
    /\ checks = <<>>
    /\ validator = "idle"
    /\ version = <<>>
    /\ slide_count = <<>>
    /\ commit_hash = ""
    /\ pandoc_args = <<>>
    /\ result = <<>>
    /\ spawned = 0
    /\ out = <<>>
    /\ exitStatus = <<>>
    /\ exitVia = ""
    /\ kbi = "none"
    /\ runs = 1
    /\ prev = [args |-> <<>>, commit |-> "", dist |-> fs.dist, made |-> FALSE]

\* The script is started again in the same working directory: a new
\* process, a later clock, possibly other arguments and another HEAD.
StartRun ==
    /\ pc = "done"
    /\ runs < MaxRuns
    /\ runs' = runs + 1
    /\ argv' \in ArgvsOf(script)
    /\ clock' \in {clock, clock + 1}
    /\ git' \in GitsOf(script, git)
    /\ prev' = [args |-> IF pandoc_args # <<>> THEN pandoc_args ELSE prev.args,
                commit |-> IF pandoc_args # <<>> THEN commit_hash ELSE prev.commit,
                dist |-> fs.dist,
                made |-> prev.made \/ (~prev.dist /\ fs.dist)]
    /\ pc' = "main"
    /\ checks_passed' = TRUE
    /\ checks' = <<>>
    /\ validator' = "idle"
    /\ version' = <<>>
    /\ slide_count' = <<>>
    /\ commit_hash' = ""
    /\ pandoc_args' = <<>>
    /\ result' = <<>>
    /\ spawned' = 0
    /\ out' = <<>>
    /\ exitStatus' = <<>>
    /\ exitVia' = ""
    /\ kbi' = "none"
    /\ UNCHANGED <<script, fs, pandoc>>

\* The positions inside the try block of run_pandoc, build.py:189-237.
InRunPandocTry == {"spawn", "report"}

\* A KeyboardInterrupt is raised in the step at pc.  build.py:85 (a bare
\* except) swallows it; build.py:262 handles it inside the try block of
\* run_pandoc; anywhere else, and everywhere in old_build.py, nothing
\* catches it (main's handler, build.py:313, names Exception): Python
\* prints the traceback and ends the process by SIGINT, which a shell
\* reports as status 130.
Interrupt ==
    /\ pc # "done"
    /\ kbi' = pc
    /\ IF script = "build" /\ pc = "count_slides"
       THEN /\ pc' = "check_reveal"
            /\ UNCHANGED <<spawned, out, validator, exitStatus, exitVia>>
       ELSE IF script = "build" /\ pc \in InRunPandocTry
       THEN /\ pc' = "interrupted"
            /\ \E started \in BOOLEAN :
                 spawned' = IF started /\ pc = "spawn" /\ pandoc = "ok"
                            THEN spawned + 1 ELSE spawned
            /\ UNCHANGED <<out, validator, exitStatus, exitVia>>
       ELSE /\ out' = Append(out, Msg("Traceback", "KeyboardInterrupt"))
            /\ validator' = IF validator = "running" THEN "aborted" ELSE validator
            /\ Exit(130, "sigint")
            /\ UNCHANGED spawned
    /\ UNCHANGED <<script, argv, clock, runs, prev, tools, fs, checks_passed, checks,
                   version, slide_count, commit_hash, pandoc_args, result>>

Next ==
    \/ MainHelp
    \/ MainVersion
    \/ MainHeader
    \/ CheckSource
    \/ CountSlides
    \/ CheckReveal
    \/ CheckPandoc
    \/ EnsureOutputDir
    \/ CheckEnd
    \/ RunPandocStart
    \/ BuildCommand
    \/ Spawn
    \/ Report
    \/ FailedHandler
    \/ NotFoundHandler
    \/ FinalBanner
    \/ UnexpectedHandler
    \/ OldCheckSource
    \/ OldCheckReveal
    \/ OldEnsureOutputDir
    \/ OldRunPandoc
    \/ OldSpawn
    \/ OldReport
    \/ OldFailedHandler
    \/ StartRun

\* Runs that no user interrupts.
Spec == Init /\ [][Next]_vars

NextInt == Next \/ Interrupt \/ InterruptedHandler

\* Runs a user may interrupt at any step.
SpecInt == Init /\ [][NextInt]_vars

---------------------------------------------------------------------------
(* The slide count on every short source file *)

Alphabet == {"-", "\n", "a"}

RECURSIVE StringsUpTo(_)
StringsUpTo(n) ==
    IF n = 0 THEN {""}
    ELSE LET shorter == StringsUpTo(n - 1)
         IN  shorter \cup {s \o c : s \in shorter, c \in Alphabet}

\* check_paths has found the source file and is about to count its slides.
InitSlides ==
    /\ script = "build"
    /\ argv = <<>>
    /\ clock = 0
    /\ \E c \in StringsUpTo(MaxLen) :
         fs = [source |-> <<c>>, reveal |-> "complete", dist |-> TRUE, output |-> <<>>]
    /\ pandoc = "ok"
    /\ git = "<nogit>"
    /\ pc = "count_slides"
    /\ checks_passed = TRUE
    /\ checks = <<Check("source", TRUE)>>
    /\ validator = "running"
    /\ version = <<>>
    /\ slide_count = <<>>
    /\ commit_hash = ""
    /\ pandoc_args = <<>>
    /\ result = <<>>
    /\ spawned = 0
    /\ out = <<>>
    /\ exitStatus = <<>>
    /\ exitVia = ""
    /\ kbi = "none"
    /\ runs = 1
    /\ prev = [args |-> <<>>, commit |-> "", dist |-> TRUE, made |-> FALSE]

NextSlides == CountSlides

SpecSlides == InitSlides /\ [][NextSlides]_vars

---------------------------------------------------------------------------
(* Properties *)

\* The run executed the pipeline (no help or version flag).
PipelineRan == validator # "idle"

Done == pc = "done"

FailedCheck == \E i \in 1..Len(checks) : ~checks[i].ok

CheckPassed(name) == \E i \in 1..Len(checks) : checks[i].name = name /\ checks[i].ok

CheckNames == [i \in 1..Len(checks) |-> checks[i].name]

\* The checks of each validator, in the order of the code: build.py:69-111,
\* old_build.py:18-31.
ChecksOf(s) ==
    IF s = "build" THEN << "source", "reveal", "pandoc", "output_dir" >>
    ELSE << "source", "reveal", "output_dir" >>

ConverterFailed == result # <<>> /\ result[1].rc # 0

\* C1: a run of build.py that executed the pipeline ends with status 0 only
\* if the converter wrote the artifact dist/index.html during that run.
C1_ExitZeroOnlyIfArtifactWritten ==
    (script = "build" /\ Done /\ PipelineRan /\ exitStatus = <<0>>)
        => (result # <<>> /\ result[1].wrote # <<>>)

\* C2: the converter build is spawned at most once per run and only after
\* check_paths finished with every check passed; when a check failed, or the
\* source, the reveal.js directory or pandoc is missing, the run ends with
\* status 1 and the build was never spawned.
C2_BuildOnlyAfterValidation ==
    /\ spawned <= 1
    /\ (spawned = 1 \/ pandoc_args # <<>>) =>
          /\ validator = "passed"
          /\ ~FailedCheck
          /\ CheckNames = ChecksOf(script)
    /\ (Done /\ PipelineRan /\ FailedCheck) =>
          (exitStatus = <<1>> /\ spawned = 0)
    /\ (Done /\ PipelineRan
          /\ (~SourceExists \/ fs.reveal = "absent" \/ pandoc = "missing")) =>
          (exitStatus = <<1>> /\ spawned = 0)

\* A run of build.py ended with status 1 on a failed check, nothing spawned.
C2_Witness ==
    /\ script = "build" /\ Done /\ FailedCheck
    /\ SourceExists /\ pandoc = "ok" /\ fs.reveal = "dir"
    /\ exitStatus = <<1>> /\ spawned = 0

\* C3: in build.py a converter that exits non-zero leads to the
\* CalledProcessError handler and to exit status 1; neither "Build
\* complete!" nor "Build successful!" is printed, and main's "Unexpected
\* error" handler is not involved.
C3_ConversionFailure ==
    (script = "build" /\ ConverterFailed) =>
        /\ pc \in {"build_failed", "done"}
        /\ ~Printed("Build complete!")
        /\ ~Printed("Build successful!")
        /\ ~Printed("Unexpected error")
        /\ Done => /\ Printed("Build Failed!")
                   /\ exitStatus = <<1>>
                   /\ exitVia = "exit"

\* A run of build.py whose converter exited 64 has ended.
C3_Witness ==
    /\ script = "build" /\ Done
    /\ result # <<>> /\ result[1].rc = 64
    /\ exitStatus = <<1>>

\* C4: a run of build.py in which a KeyboardInterrupt arrived, at any
\* point, ends with status 130, never with 0 or 1.
C4_InterruptExits130 ==
    (script = "build" /\ kbi # "none" /\ Done) => exitStatus = <<130>>

\* C5: in both scripts, when the validator ends (passed, or with its exit on
\* failure) all of its checks have been evaluated.
C5_AllChecksEvaluated ==
    validator \in {"passed", "failed"} => CheckNames = ChecksOf(script)

\* The build failed: the converter exited non-zero or was not found.
FailedBuild == ConverterFailed \/ Printed("Pandoc not found")

\* C6: on every failed build of build.py the output of the run contains the
\* complete command line, with or without --verbose.
C6_FailedBuildShowsCommand ==
    (script = "build" /\ Done /\ FailedBuild) =>
        \E i \in 1..Len(out) :
            /\ out[i].tag \in {"Command", "Full Pandoc Command"}
            /\ out[i].val = Join(pandoc_args)

IsBuildTime(arg) == Len(arg) >= 11 /\ SubSeq(arg, 1, 11) = "build-time="

\* C7: two runs of build.py with the same revision identifier build the same
\* argument sequence, element by element, except for the one build-time
\* value; the arguments of the run and the filesystem do not matter.
C7_Deterministic ==
    (script = "build" /\ prev.args # <<>> /\ pandoc_args # <<>>
        /\ prev.commit = commit_hash) =>
        /\ Len(pandoc_args) = Len(prev.args)
        /\ Cardinality({i \in 1..Len(pandoc_args) : IsBuildTime(pandoc_args[i])}) = 1
        /\ \A i \in 1..Len(pandoc_args) :
              \/ pandoc_args[i] = prev.args[i]
              \/ IsBuildTime(pandoc_args[i]) /\ IsBuildTime(prev.args[i])

\* A second command was built for the same revision at a later time, in a
\* verbose run, with the output directory made by the run before.
C7_Witness ==
    /\ script = "build" /\ prev.args # <<>> /\ pandoc_args # <<>>
    /\ prev.commit = commit_hash
    /\ pandoc_args # prev.args
    /\ Verbose
    /\ prev.made

\* C8: in build.py the output directory exists once the validator has
\* finished, also when checks failed; the directory check never fails; a
\* directory present at the start of a run, made by an earlier run or not,
\* is still there at every later point.
C8_OutputDirCreated ==
    script = "build" =>
        /\ validator \in {"passed", "failed"} => fs.dist
        /\ \A i \in 1..Len(checks) : checks[i].name = "output_dir" => checks[i].ok
        /\ prev.dist => fs.dist
        /\ prev.made => prev.dist

\* The first run made the directory; the second run's validator failed on
\* another check and the run ended with status 1.
C8_Witness ==
    /\ script = "build" /\ runs = 2
    /\ prev.made /\ prev.dist /\ fs.dist
    /\ validator = "failed" /\ exitStatus = <<1>>

\* The lines of the content that are exactly '---'.
SeparatorLines(content) ==
    LET lines == SplitLines(content)
    IN  Cardinality({i \in 1..Len(lines) : lines[i] = "---"})

\* C9: the slide count check_paths reports is the number of separator lines
\* of the source plus one.
C9_SlideCountIsSeparatorsPlusOne ==
    slide_count # <<>> => slide_count[1] = SeparatorLines(fs.source[1]) + 1

\* `pandoc --version` ran, exited 0 and printed a version line.
VersionReported ==
    /\ pandoc = "ok"
    /\ version # <<>>
    /\ version[1].rc = 0
    /\ VersionLine(version[1].stdout) # ""

\* C10: the converter check of build.py passes only when pandoc was found
\* and reported a version with exit status 0; otherwise the run ends with
\* status 1 and no build is spawned.
C10_PandocCheckNeedsVersion ==
    script = "build" =>
        /\ CheckPassed("pandoc") => VersionReported
        /\ (Done /\ PipelineRan /\ ~VersionReported) =>
              (exitStatus = <<1>> /\ spawned = 0)

====
